---------------------------- MODULE Spec2Model ----------------------------
(***************************************************************************)
(* NFUID: the identifier codec of src/src/nfuid.js (JavaScript, BigInt)    *)
(* and the constructor of src/php/src/NFUID.php.                           *)
(*                                                                         *)
(* Strings are sequences of character codes.  A JavaScript number given    *)
(* as an option is a record [nan, h]: NaN, or the number h/2 (so that      *)
(* integers and halves such as 1.5 are both representable).                *)
(***************************************************************************)
EXTENDS Integers, Sequences, FiniteSets, TLC

VARIABLES
    lang,      \* "js" or "php": which implementation the instance belongs to
    opts,      \* the options object given to the constructor
    inst,      \* the constructed instance (its private fields), or NoInstance
    peer,      \* a second instance built over the same alphabet, or NoInstance
    status,    \* "new", "rejected", "idle", or "toBase" (inside generate's loop)
    locals,    \* generate()'s local variables of the call in progress / last call
    n,         \* #toBase: the loop operand
    result,    \* #toBase: the string built so far
    id,        \* the string returned by the last generate(), or NoId
    rec,       \* the last decode() call: [by, input, out] or NoRec
    err,       \* the error raised by the last call, or "none"
    call       \* the last call of a PHP big-number function: [op, a, b, out], or NoCall

vars == <<lang, opts, inst, peer, status, locals, n, result, id, rec, err, call>>

-----------------------------------------------------------------------------
(* Bounds of the model *)

\* generate() is explored for instances whose entropyLength is at most this
MaxEntropyLength == 10

\* the engine's maximal string length, scaled down: a longer string raises
MaxStringLength == 24

\* decode() of caller-supplied strings is explored for strings up to this length
MaxInputLength == 2

\* ... and for strings whose header decodes to at most this timestamp width
MaxDecodedTimestampBits == 6

\* generate() of the PHP class is explored up to this entropyLength
MaxPhpEntropyLength == 8

\* the PHP decimal-string functions are called with operands up to this value,
MaxOperand == 110

\* with exponents and shift counts up to this one,
MaxExponent == 6

\* and bigPow with bases up to this one
MaxPowBase == 12

\* bigAnd and bigXor are called with operands up to this value
MaxBitOperand == 40

\* toBase is called on its own with numbers up to this value
MaxNumber == 40

\* ... and with a minLength up to this one
MaxMinLength == 4

\* decode() is explored with up to this many padding characters prepended
MaxPadding == 2

-----------------------------------------------------------------------------
(* Values *)

NoInstance == [none |-> TRUE]
NoId == <<-1>>
NoRec == [by |-> 0]
NoLocals == [none |-> TRUE]
NoCall == [op |-> "none"]

\* a value above the length of every string the engine can hold
Infinity == MaxStringLength + 1

Num(k) == [nan |-> FALSE, h |-> 2 * k]
Half(k) == [nan |-> FALSE, h |-> 2 * k + 1]
NaN == [nan |-> TRUE, h |-> 0]

\* JavaScript / PHP relational operators on numbers: false when either is NaN
NumLess(a, b) == ~a.nan /\ ~b.nan /\ a.h < b.h
NumPlus(k, a) == IF a.nan THEN NaN ELSE [nan |-> FALSE, h |-> 2 * k + a.h]
NumAdd(a, b) == IF a.nan \/ b.nan THEN NaN ELSE [nan |-> FALSE, h |-> a.h + b.h]
NumMinus(a, b) == IF a.nan \/ b.nan THEN NaN ELSE [nan |-> FALSE, h |-> a.h - b.h]
IsInteger(a) == ~a.nan /\ a.h % 2 = 0
IntOf(a) == a.h \div 2

Range(s) == {s[i] : i \in DOMAIN s}

RECURSIVE Pow(_, _)
Pow(b, e) == IF e = 0 THEN 1 ELSE b * Pow(b, e - 1)

-----------------------------------------------------------------------------
(* BigInt operators, on the non-negative values the codec produces *)

RECURSIVE BigAnd(_, _)
BigAnd(a, b) ==
    IF b = -1 THEN a
    ELSE IF a = 0 \/ b = 0 THEN 0
    ELSE 2 * BigAnd(a \div 2, b \div 2) + (a % 2) * (b % 2)

RECURSIVE BigXor(_, _)
BigXor(a, b) ==
    IF a = 0 THEN b
    ELSE IF b = 0 THEN a
    ELSE 2 * BigXor(a \div 2, b \div 2) + (((a % 2) + (b % 2)) % 2)

RECURSIVE BigOr(_, _)
BigOr(a, b) ==
    IF a = 0 THEN b
    ELSE IF b = 0 THEN a
    ELSE 2 * BigOr(a \div 2, b \div 2) + (IF (a % 2) + (b % 2) > 0 THEN 1 ELSE 0)

\* a << k and a >> k; a negative count shifts the other way
BigShl(a, k) == IF k >= 0 THEN a * Pow(2, k) ELSE a \div Pow(2, 0 - k)
BigShr(a, k) == IF k >= 0 THEN a \div Pow(2, k) ELSE a * Pow(2, 0 - k)

\* BigInt.prototype.toString(radix) for radix 2 and 16
DigitChars == <<48, 49, 50, 51, 52, 53, 54, 55, 56, 57, 97, 98, 99, 100, 101, 102>>

RECURSIVE BigToString(_, _)
BigToString(v, radix) ==
    IF v < radix THEN <<DigitChars[v + 1]>>
    ELSE Append(BigToString(v \div radix, radix), DigitChars[(v % radix) + 1])


-----------------------------------------------------------------------------
(* Inputs explored *)

\* "A", "01", "abc", "0123456789"; then the empty string, "0 1", "00",
\* "a<DEL>" and "ab<LF>"
Alphabets ==
    { <<65>>, <<48, 49>>, <<97, 98, 99>>,
      <<48, 49, 50, 51, 52, 53, 54, 55, 56, 57>>,
      <<>>, <<48, 32, 49>>, <<48, 48>>, <<97, 127>>, <<97, 98, 10>> }

TimestampLengths ==
    {Num(k) : k \in (-1 .. (MaxEntropyLength - 6)) \cup {63, 64}}
        \cup {Half(1), NaN}

EntropyLengths ==
    {Num(k) : k \in (5 .. MaxEntropyLength) \cup {68, 69}}
        \cup {Half(8), NaN}

\* widths of the second instance (timestampLength, entropyLength)
PeerWidths == {<<0, 6>>, <<2, 9>>, <<5, 11>>}

\* the bytes crypto.getRandomValues may store (a sample of 0..255)
RandomByteValues == {0, 90, 165, 255}

\* values of Date.now(), in milliseconds
ClockValues == {999, 21500, 1234567}

-----------------------------------------------------------------------------
(* constructor *)

\* /^[\x21-\x7E]+$/.test(a) in JavaScript: $ matches at the end only
JsAlphabetPattern(a) == Len(a) >= 1 /\ \A i \in DOMAIN a : a[i] \in 33 .. 126

\* preg_match('/^[\x21-\x7E]+$/', a) in PHP: $ also matches before a final LF
PhpAlphabetPattern(a) ==
    \/ JsAlphabetPattern(a)
    \/ /\ Len(a) >= 2
       /\ a[Len(a)] = 10
       /\ JsAlphabetPattern(SubSeq(a, 1, Len(a) - 1))

AlphabetPattern(l, a) ==
    IF l = "js" THEN JsAlphabetPattern(a) ELSE PhpAlphabetPattern(a)

\* mutant: entropyLength <= 6 + timestampLength is rejected
ConfigErrorStrict(l, o) ==
    IF ~AlphabetPattern(l, o.baseAlphabet) \/ 32 \in Range(o.baseAlphabet)
    THEN "alphabet"
    ELSE IF Cardinality(Range(o.baseAlphabet)) # Len(o.baseAlphabet)
    THEN "duplicate"
    ELSE IF NumLess(o.timestampLength, Num(0)) \/ NumLess(Num(63), o.timestampLength)
    THEN "timestampLength"
    ELSE IF NumLess(o.entropyLength, NumPlus(7, o.timestampLength))
    THEN "entropyLength"
    ELSE "none"

\* the check that throws first, or "none"
ConfigError(l, o) ==
    IF ~AlphabetPattern(l, o.baseAlphabet) \/ 32 \in Range(o.baseAlphabet)
    THEN "alphabet"
    ELSE IF Cardinality(Range(o.baseAlphabet)) # Len(o.baseAlphabet)
    THEN "duplicate"
    ELSE IF NumLess(o.timestampLength, Num(0)) \/ NumLess(Num(63), o.timestampLength)
    THEN "timestampLength"
    ELSE IF NumLess(o.entropyLength, NumPlus(6, o.timestampLength))
    THEN "entropyLength"
    ELSE "none"

\* the loop BASE_MAP[BASE_ALPHABET[i]] = i: a later position overwrites
BaseMap(a) ==
    [c \in Range(a) |->
        (CHOOSE i \in DOMAIN a : a[i] = c /\ \A j \in DOMAIN a : a[j] = c => j <= i) - 1]

NewInstance(o) ==
    [BASE_ALPHABET |-> o.baseAlphabet,
     baseRadix |-> Len(o.baseAlphabet),
     timestampBits |-> o.timestampLength,
     randomBits |-> o.entropyLength,
     BASE_MAP |-> BaseMap(o.baseAlphabet)]

-----------------------------------------------------------------------------
(* #toBase, #fromBase, #generateRandomBits *)

headerBits == 6

\* mutant: the padding is made of the last character of the alphabet
RECURSIVE PadWithLastCharacter(_, _, _)
PadWithLastCharacter(self, str, minLength) ==
    IF Len(str) < minLength
    THEN PadWithLastCharacter(self, <<self.BASE_ALPHABET[self.baseRadix]>> \o str,
                              minLength)
    ELSE str

\* the padding loop of #toBase
RECURSIVE PadToMinLength(_, _, _)
PadToMinLength(self, str, minLength) ==
    IF Len(str) < minLength
    THEN PadToMinLength(self, <<self.BASE_ALPHABET[1]>> \o str, minLength)
    ELSE str

\* BASE_ALPHABET[0].repeat(count)
RECURSIVE Repeat(_, _)
Repeat(c, count) == IF count <= 0 THEN <<>> ELSE <<c>> \o Repeat(c, count - 1)

\* the result of #toBase(0, minLength); minLength || 1
ToBaseOfZero(self, minLength) ==
    Repeat(self.BASE_ALPHABET[1], IF minLength = 0 THEN 1 ELSE minLength)

\* mutant: the whole string is scanned and the last foreign character reported
RECURSIVE fromBaseReportLast(_, _)
fromBaseReportLast(self, str) ==
    IF str = <<>> THEN [ok |-> TRUE, value |-> 0]
    ELSE IF str[Len(str)] \notin DOMAIN self.BASE_MAP
    THEN [ok |-> FALSE, char |-> str[Len(str)]]
    ELSE LET front == fromBaseReportLast(self, SubSeq(str, 1, Len(str) - 1)) IN
         IF ~front.ok THEN front
         ELSE [ok |-> TRUE,
               value |-> front.value * self.baseRadix + self.BASE_MAP[str[Len(str)]]]

RECURSIVE fromBaseLoop(_, _, _, _)
fromBaseLoop(self, str, i, acc) ==
    IF i > Len(str) THEN [ok |-> TRUE, value |-> acc]
    ELSE IF str[i] \notin DOMAIN self.BASE_MAP THEN [ok |-> FALSE, char |-> str[i]]
    ELSE fromBaseLoop(self, str, i + 1, acc * self.baseRadix + self.BASE_MAP[str[i]])

\* mutant: the accumulation starts from 1
fromBaseFromOne(self, str) == fromBaseLoop(self, str, 1, 1)

fromBase(self, str) == fromBaseLoop(self, str, 1, 0)

\* value = (value << 8n) | BigInt(byte), over the buffer
RECURSIVE BufferValue(_, _)
BufferValue(buffer, k) ==
    IF k = 0 THEN 0 ELSE BigOr(BigShl(BufferValue(buffer, k - 1), 8), buffer[k])

\* Math.ceil(bits / 8)
BufferLength(bits) == (bits + 7) \div 8

generateRandomBits(bits, buffer) ==
    BigAnd(BufferValue(buffer, Len(buffer)), BigShl(1, bits) - 1)

-----------------------------------------------------------------------------
(* generate *)

\* BigInt(Math.floor(Date.now() / 1000)) & timestampMask
Timestamp(tb, now) ==
    IF tb > 0 THEN BigAnd(now \div 1000, BigShl(1, tb) - 1) ELSE 0

HeaderXorMask(randBits) == BigAnd(randBits, BigShl(1, headerBits) - 1)

FinalHeader(tb, randBits) == BigXor(tb, HeaderXorMask(randBits))

\* mutant: the pad is taken from the low bits of the random field
TimestampXorMaskLow(tb, rb, randBits) == BigAnd(randBits, BigShl(1, tb) - 1)

TimestampXorMask(tb, rb, randBits) == BigShr(randBits, rb - tb)

FinalTimestamp(tb, rb, timestamp, randBits) ==
    IF tb > 0 THEN BigXor(timestamp, TimestampXorMask(tb, rb, randBits))
    ELSE timestamp

\* mutant: the leading flag bit is not set
FinalValueNoFlag(tb, rb, finalHeader, finalTimestamp, randBits) ==
    LET withTimestamp ==
            IF tb > 0 THEN BigOr(BigShl(finalHeader, tb), finalTimestamp)
            ELSE finalHeader
    IN  BigOr(BigShl(withTimestamp, rb), randBits)

\* mutant: the random bits are given one bit less than their width
FinalValueOverlapping(tb, rb, finalHeader, finalTimestamp, randBits) ==
    LET flagged == 1
        withHeader == BigOr(BigShl(flagged, headerBits), finalHeader)
        withTimestamp ==
            IF tb > 0 THEN BigOr(BigShl(withHeader, tb), finalTimestamp)
            ELSE withHeader
    IN  BigOr(BigShl(withTimestamp, rb - 1), randBits)

FinalValue(tb, rb, finalHeader, finalTimestamp, randBits) ==
    LET flagged == 1
        withHeader == BigOr(BigShl(flagged, headerBits), finalHeader)
        withTimestamp ==
            IF tb > 0 THEN BigOr(BigShl(withHeader, tb), finalTimestamp)
            ELSE withHeader
    IN  BigOr(BigShl(withTimestamp, rb), randBits)

\* the least L with radix^L >= 2^totalBits
RECURSIVE LeastLength(_, _, _, _)
LeastLength(radix, target, L, p) ==
    IF p >= target THEN L ELSE LeastLength(radix, target, L + 1, p * radix)

\* mutant: Math.floor instead of Math.ceil
MinLengthFloor(totalBits, radix) ==
    IF radix = 1 THEN Infinity
    ELSE LeastLength(radix, Pow(2, totalBits), 0, 1) - 1

\* Math.ceil(Number(totalBits) / Math.log2(radix)); log2(1) = 0 gives Infinity
MinLength(totalBits, radix) ==
    IF radix = 1 THEN Infinity
    ELSE LeastLength(radix, Pow(2, totalBits), 0, 1)

\* the locals of generate() when #toBase is called
GenerateLocals(self, now, buffer) ==
    LET tb == IntOf(self.timestampBits)
        rb == IntOf(self.randomBits)
        timestamp == Timestamp(tb, now)
        randBits == generateRandomBits(rb, buffer)
        finalHeader == FinalHeader(tb, randBits)
        finalTimestamp == FinalTimestamp(tb, rb, timestamp, randBits)
    IN  [now |-> now,
         timestamp |-> timestamp,
         randBits |-> randBits,
         finalHeader |-> finalHeader,
         finalTimestamp |-> finalTimestamp,
         finalValue |-> FinalValue(tb, rb, finalHeader, finalTimestamp, randBits),
         minLength |-> MinLength(1 + headerBits + tb + rb, self.baseRadix)]

-----------------------------------------------------------------------------
(* decode *)

\* full.toString(2).slice(1)
Binary(full) == Tail(BigToString(full, 2))

\* full ^ (1n << BigInt(fullLength))
ClearFlag(full, fullLength) == BigXor(full, BigShl(1, fullLength))

ActualTimestampBits(value, fullLength) ==
    LET headerMask == BigShl(1, headerBits) - 1
        encodedHeader == BigAnd(BigShr(value, fullLength - headerBits), headerMask)
        headerXorMask == BigAnd(value, headerMask)
    IN  BigXor(encodedHeader, headerXorMask)

\* mutant: the flag bit is subtracted once more
RandomBitsLengthLessFlag(self, fullLength, actualTimestampBits) ==
    fullLength - 1 - headerBits - actualTimestampBits

\* mutant: the width is read from the decoding instance's configuration
RandomBitsLengthConfigured(self, fullLength, actualTimestampBits) ==
    IntOf(self.randomBits)

RandomBitsLength(self, fullLength, actualTimestampBits) ==
    fullLength - headerBits - actualTimestampBits

\* mutant: the random mask is one bit short
EncodedRandomShort(value, randomBitsLength) ==
    BigAnd(value, BigShl(1, randomBitsLength - 1) - 1)

EncodedRandom(value, randomBitsLength) ==
    BigAnd(value, BigShl(1, randomBitsLength) - 1)

ActualTimestamp(value, encodedRandom, randomBitsLength, actualTimestampBits) ==
    LET timestampMask == BigShl(1, actualTimestampBits) - 1
        encodedTimestamp == BigAnd(BigShr(value, randomBitsLength), timestampMask)
        timestampXorMask ==
            BigShr(encodedRandom, randomBitsLength - actualTimestampBits)
    IN  BigXor(encodedTimestamp, timestampXorMask)

\* mutant: a Date is built although the identifier has no timestamp field
FormattedTimestampAlways(actualTimestampBits, actualTimestamp) ==
    [null |-> FALSE, time |-> actualTimestamp * 1000]

\* result.formattedTimestamp: null unless the identifier has a timestamp field
FormattedTimestamp(actualTimestampBits, actualTimestamp) ==
    IF actualTimestampBits > 0
    THEN [null |-> FALSE, time |-> actualTimestamp * 1000]
    ELSE [null |-> TRUE, time |-> 0]

decode(self, str) ==
    LET fb == fromBase(self, str) IN
    IF ~fb.ok THEN [ok |-> FALSE, error |-> "InvalidCharacter", char |-> fb.char]
    ELSE
    LET full == fb.value
        binary == Binary(full)
        fullLength == Len(binary)
        value == ClearFlag(full, fullLength)
        actualTimestampBits == ActualTimestampBits(value, fullLength)
        randomBitsLength == RandomBitsLength(self, fullLength, actualTimestampBits)
        encodedRandom == EncodedRandom(value, randomBitsLength)
        actualTimestamp ==
            ActualTimestamp(value, encodedRandom, randomBitsLength, actualTimestampBits)
    IN  [ok |-> TRUE,
         timestampLength |-> actualTimestampBits,
         timestamp |-> IF actualTimestampBits > 0 THEN actualTimestamp ELSE 0,
         randomLength |-> randomBitsLength,
         random |-> BigToString(encodedRandom, 16),
         formattedTimestamp |-> FormattedTimestamp(actualTimestampBits, actualTimestamp),
         binary |-> binary]

-----------------------------------------------------------------------------
(* The state machine *)

Init ==
    /\ lang = "js"
    /\ opts = [none |-> TRUE]
    /\ inst = NoInstance
    /\ peer = NoInstance
    /\ status = "new"
    /\ locals = NoLocals
    /\ n = 0
    /\ result = <<>>
    /\ id = NoId
    /\ rec = NoRec
    /\ err = "none"
    /\ call = NoCall

\* new NFUID({baseAlphabet, timestampLength, entropyLength})
Construct(l, a, t, e) ==
    LET o == [baseAlphabet |-> a, timestampLength |-> t, entropyLength |-> e] IN
    /\ status = "new"
    /\ lang' = l
    /\ opts' = o
    /\ err' = ConfigError(l, o)
    /\ IF ConfigError(l, o) = "none"
       THEN inst' = NewInstance(o) /\ status' = "idle"
       ELSE inst' = NoInstance /\ status' = "rejected"
    /\ UNCHANGED <<peer, locals, n, result, id, rec, call>>

\* a second instance over the same alphabet, with widths of its own
ConstructPeer(w) ==
    LET o == [baseAlphabet |-> inst.BASE_ALPHABET,
              timestampLength |-> Num(w[1]), entropyLength |-> Num(w[2])] IN
    /\ status = "idle"
    /\ lang = "js"
    /\ id # NoId
    /\ peer = NoInstance
    /\ ConfigError(lang, o) = "none"
    /\ peer' = NewInstance(o)
    /\ UNCHANGED <<lang, opts, inst, status, locals, n, result, id, rec, err, call>>

\* mutant: a call stores the width it worked with back into the instance
AfterCallStoringWidth(self) ==
    [self EXCEPT !.timestampBits = Num(0)]

\* the fields of the instance when generate() or decode() has run: neither
\* method, nor #toBase, #fromBase or #generateRandomBits, assigns a field
AfterCall(self) == self

\* generate(), up to the loop of #toBase; BigInt(x) throws a RangeError
\* when x is not an integer.  One call is explored per behaviour: no action
\* assigns a field of the instance, so a later call starts from the same
\* instance as the first.
GenerateCall ==
    /\ status = "idle"
    /\ lang = "js"
    /\ id = NoId
    /\ IF ~IsInteger(inst.timestampBits) \/ ~IsInteger(inst.randomBits)
       THEN /\ err' = "RangeError"
            /\ id' = NoId
            /\ UNCHANGED <<status, locals, n, result>>
       ELSE /\ IntOf(inst.randomBits) <= MaxEntropyLength
            /\ \E now \in ClockValues :
               \E buffer \in [1 .. BufferLength(IntOf(inst.randomBits)) -> RandomByteValues] :
                 LET g == GenerateLocals(inst, now, buffer) IN
                 /\ locals' = g
                 /\ err' = "none"
                 /\ IF g.finalValue = 0
                    THEN /\ id' = ToBaseOfZero(inst, g.minLength)
                         /\ UNCHANGED <<status, n, result>>
                    ELSE /\ status' = "toBase"
                         /\ n' = g.finalValue
                         /\ result' = <<>>
                         /\ id' = NoId
    /\ rec' = NoRec
    /\ inst' = AfterCall(inst)
    /\ UNCHANGED <<lang, opts, peer, call>>

\* mutant: each digit is appended to the right of the result
ToBaseStepAppending ==
    /\ status = "toBase"
    /\ n > 0
    /\ IF Len(result) >= MaxStringLength
       THEN /\ err' = "RangeError"
            /\ status' = "idle"
            /\ UNCHANGED <<n, result>>
       ELSE /\ n' = n \div inst.baseRadix
            /\ result' = result \o <<inst.BASE_ALPHABET[(n % inst.baseRadix) + 1]>>
            /\ UNCHANGED <<status, err>>
    /\ UNCHANGED <<lang, opts, inst, peer, locals, id, rec, call>>

\* one iteration of while (n > 0n); a string beyond the engine's limit raises
ToBaseStep ==
    /\ status = "toBase"
    /\ n > 0
    /\ IF Len(result) >= MaxStringLength
       THEN /\ err' = "RangeError"
            /\ status' = "idle"
            /\ UNCHANGED <<n, result>>
       ELSE /\ n' = n \div inst.baseRadix
            /\ result' = <<inst.BASE_ALPHABET[(n % inst.baseRadix) + 1]>> \o result
            /\ UNCHANGED <<status, err>>
    /\ UNCHANGED <<lang, opts, inst, peer, locals, id, rec, call>>

\* the loop has ended: the padding, and generate() returns
ToBaseReturn ==
    /\ status = "toBase"
    /\ n = 0
    /\ id' = PadToMinLength(inst, result, locals.minLength)
    /\ status' = "idle"
    /\ UNCHANGED <<lang, opts, inst, peer, locals, n, result, rec, err, call>>

\* decode(id) on the instance itself (by = 1) or on the second one (by = 2)
Decode(by) ==
    LET self == IF by = 1 THEN inst ELSE peer
        out == decode(self, id) IN
    /\ status = "idle"
    /\ lang = "js"
    /\ id # NoId
    /\ self # NoInstance
    /\ rec' = [by |-> by, input |-> id, out |-> out]
    /\ err' = IF out.ok THEN "none" ELSE out.error
    /\ inst' = IF by = 1 THEN AfterCall(inst) ELSE inst
    /\ peer' = IF by = 1 THEN peer ELSE AfterCall(peer)
    /\ UNCHANGED <<lang, opts, status, locals, n, result, id, call>>

Next ==
    \/ /\ status = "new"
       /\ \E l \in {"js", "php"}, a \in Alphabets,
             t \in TimestampLengths, e \in EntropyLengths : Construct(l, a, t, e)
    \/ \E w \in PeerWidths : ConstructPeer(w)
    \/ GenerateCall
    \/ ToBaseStep
    \/ ToBaseReturn
    \/ \E by \in {1, 2} : Decode(by)

Spec == Init /\ [][Next]_vars

-----------------------------------------------------------------------------
(* decode() of strings supplied by the caller *)

\* the characters of the supplied strings: the first and the last character of
\* the alphabet, and "!" and "?", which are in none of the alphabets
InputChars(self) ==
    {self.BASE_ALPHABET[1], self.BASE_ALPHABET[Len(self.BASE_ALPHABET)], 33, 63}

RECURSIVE StringsUpTo(_, _)
StringsUpTo(chars, len) ==
    IF len = 0 THEN {<<>>}
    ELSE LET shorter == StringsUpTo(chars, len - 1) IN
         shorter \cup {Append(str, c) : str \in shorter, c \in chars}

\* the timestamp width decode() reads from the header of str
DecodedTimestampBits(self, str) ==
    LET full == fromBase(self, str).value
        fullLength == Len(Binary(full))
    IN  ActualTimestampBits(ClearFlag(full, fullLength), fullLength)

\* decode(str) on the instance, for any string str
DecodeInput(str) ==
    LET out == decode(inst, str) IN
    /\ status = "idle"
    /\ lang = "js"
    /\ id = NoId
    /\ fromBase(inst, str).ok =>
          DecodedTimestampBits(inst, str) <= MaxDecodedTimestampBits
    /\ rec' = [by |-> 1, input |-> str, out |-> out]
    /\ err' = IF out.ok THEN "none" ELSE out.error
    /\ inst' = AfterCall(inst)
    /\ UNCHANGED <<lang, opts, peer, status, locals, n, result, id, call>>

DecodeInputs ==
    /\ status = "idle"
    /\ \E str \in StringsUpTo(InputChars(inst), MaxInputLength) : DecodeInput(str)

ConstructAny ==
    /\ status = "new"
    /\ \E l \in {"js", "php"}, a \in Alphabets,
          t \in TimestampLengths, e \in EntropyLengths : Construct(l, a, t, e)

NextDecode ==
    \/ ConstructAny
    \/ DecodeInputs

SpecDecode == Init /\ [][NextDecode]_vars

\* decode() of the string just decoded, with k more copies of the first
\* character of the alphabet in front
DecodePadded(k) ==
    /\ status = "idle"
    /\ lang = "js"
    /\ rec.by = 1
    /\ "padding" \notin DOMAIN rec
    /\ rec' = [by |-> 1, input |-> rec.input, out |-> rec.out, padding |-> k,
               padded |-> decode(inst, Repeat(inst.BASE_ALPHABET[1], k) \o rec.input)]
    /\ inst' = AfterCall(inst)
    /\ UNCHANGED <<lang, opts, peer, status, locals, n, result, id, err, call>>

\* the first decode() on the instance
DecodeFirst == rec = NoRec /\ DecodeInputs

NextPadding ==
    \/ ConstructAny
    \/ DecodeFirst
    \/ \E k \in 0 .. MaxPadding : DecodePadded(k)

SpecPadding == Init /\ [][NextPadding]_vars

\* strings decoded between other calls: the empty string, for which decode()
\* returns, and a foreign character after a valid one, for which it raises
ProbeStrings(self) ==
    {<<>>, <<self.BASE_ALPHABET[Len(self.BASE_ALPHABET)], 63>>}

DecodeProbes ==
    /\ status = "idle"
    /\ \E str \in ProbeStrings(inst) : DecodeInput(str)

\* generate() and decode(), of generated and of other strings, in any order
NextCalls ==
    \/ Next
    \/ DecodeProbes

SpecCalls == Init /\ [][NextCalls]_vars

-----------------------------------------------------------------------------
(* The decimal-string arithmetic of the PHP class (src/php/src/NFUID.php).   *)
(* A number is a string of decimal digits, here a sequence of character      *)
(* codes: <<48>> is '0', <<49, 48>> is '10'.                                 *)

\* the element of a one-element set.  Only({F(x) : x \in {e}}) is F(e), with e
\* computed before F is entered: TLC computes an argument at its first use,
\* which in a long loop nests the computations of all iterations
Only(S) == CHOOSE v \in S : TRUE

\* (int)$s[$i] for a digit character; every other character gives 0
DigitOf(c) == IF c \in 48 .. 57 THEN c - 48 ELSE 0

\* the character of a digit
CharOf(d) == d + 48

\* (string)$k for an integer $k
PhpString(k) ==
    IF k < 0 THEN <<45>> \o BigToString(0 - k, 10) ELSE BigToString(k, 10)

\* the value of the leading digits of s, after acc
RECURSIVE LeadingDigits(_, _)
LeadingDigits(s, acc) ==
    IF s = <<>> \/ s[1] \notin 48 .. 57 THEN acc
    ELSE LeadingDigits(Tail(s), 10 * acc + (s[1] - 48))

\* (int)$s for a numeric string
PhpInt(s) ==
    IF s # <<>> /\ s[1] = 45 THEN 0 - LeadingDigits(Tail(s), 0)
    ELSE LeadingDigits(s, 0)

RECURSIVE LtrimZeros(_)
LtrimZeros(s) ==
    IF s = <<>> THEN <<>>
    ELSE IF s[1] = 48 THEN LtrimZeros(Tail(s)) ELSE s

\* ltrim($s, '0') ?: '0'
LtrimOrZero(s) == IF LtrimZeros(s) = <<>> THEN <<48>> ELSE LtrimZeros(s)

\* strcmp($a, $b) <=> 0
RECURSIVE StrCmp(_, _)
StrCmp(a, b) ==
    IF a = <<>> /\ b = <<>> THEN 0
    ELSE IF a = <<>> THEN -1
    ELSE IF b = <<>> THEN 1
    ELSE IF a[1] < b[1] THEN -1
    ELSE IF a[1] > b[1] THEN 1
    ELSE StrCmp(Tail(a), Tail(b))

\* mutant: the strings are compared without looking at their lengths first
bigCompareByString(a, b) == StrCmp(a, b)

bigCompare(a, b) ==
    IF Len(a) > Len(b) THEN 1
    ELSE IF Len(a) < Len(b) THEN -1
    ELSE StrCmp(a, b)

\* mutant: the loop ends with the longer operand and drops a last carry
RECURSIVE bigAddNoLastCarry(_, _, _, _, _, _)
bigAddNoLastCarry(a, b, i, j, carry, res) ==
    IF i >= 0 \/ j >= 0
    THEN LET digitA == IF i >= 0 THEN DigitOf(a[i + 1]) ELSE 0
             digitB == IF j >= 0 THEN DigitOf(b[j + 1]) ELSE 0
             sum == digitA + digitB + carry
         IN  bigAddNoLastCarry(a, b, i - 1, j - 1, sum \div 10,
                               <<CharOf(sum % 10)>> \o res)
    ELSE res

\* the while loop of bigAdd; i and j are the PHP (0-based) indices
RECURSIVE bigAddLoop(_, _, _, _, _, _)
bigAddLoop(a, b, i, j, carry, res) ==
    IF i >= 0 \/ j >= 0 \/ carry > 0
    THEN LET digitA == IF i >= 0 THEN DigitOf(a[i + 1]) ELSE 0
             digitB == IF j >= 0 THEN DigitOf(b[j + 1]) ELSE 0
             sum == digitA + digitB + carry
         IN  bigAddLoop(a, b, i - 1, j - 1, sum \div 10,
                        <<CharOf(sum % 10)>> \o res)
    ELSE res

bigAdd(a, b) == bigAddLoop(a, b, Len(a) - 1, Len(b) - 1, 0, <<>>)

\* the two for loops of bigMul; res[p + 1] is the PHP $result[p]
RECURSIVE bigMulLoop(_, _, _, _, _)
bigMulLoop(a, b, i, j, res) ==
    IF i < 0 THEN res
    ELSE IF j < 0 THEN bigMulLoop(a, b, i - 1, Len(b) - 1, res)
    ELSE LET mul == DigitOf(a[i + 1]) * DigitOf(b[j + 1])
             p1 == i + j
             p2 == i + j + 1
             sum == mul + res[p2 + 1]
             low == [res EXCEPT ![p2 + 1] = sum % 10]
         IN  bigMulLoop(a, b, i, j - 1,
                        [low EXCEPT ![p1 + 1] = @ + (sum \div 10)])

\* implode('', $result)
RECURSIVE Implode(_)
Implode(res) ==
    IF res = <<>> THEN <<>>
    ELSE PhpString(Head(res)) \o Implode(Tail(res))

bigMul(a, b) ==
    LtrimOrZero(Implode(bigMulLoop(a, b, Len(a) - 1, Len(b) - 1,
                                   [p \in 1 .. Len(a) + Len(b) |-> 0])))

\* the while loop of bigSub
RECURSIVE bigSubLoop(_, _, _, _, _, _)
bigSubLoop(a, b, i, j, borrow, res) ==
    IF i >= 0
    THEN LET digitA == DigitOf(a[i + 1])
             digitB == IF j >= 0 THEN DigitOf(b[j + 1]) ELSE 0
             sub == digitA - digitB - borrow
         IN  IF sub < 0
             THEN bigSubLoop(a, b, i - 1, j - 1, 1, <<CharOf(sub + 10)>> \o res)
             ELSE bigSubLoop(a, b, i - 1, j - 1, 0, <<CharOf(sub)>> \o res)
    ELSE res

\* mutant: the difference is returned with its leading zeros
bigSubUntrimmed(a, b) ==
    IF bigCompare(a, b) < 0 THEN <<48>>
    ELSE bigSubLoop(a, b, Len(a) - 1, Len(b) - 1, 0, <<>>)

bigSub(a, b) ==
    IF bigCompare(a, b) < 0 THEN <<48>>
    ELSE LtrimOrZero(bigSubLoop(a, b, Len(a) - 1, Len(b) - 1, 0, <<>>))

\* while (bigCompare($remainder, $b) >= 0) { $remainder = bigSub(...); $count++; }
RECURSIVE SubtractWhile(_, _, _)
SubtractWhile(remainder, b, count) ==
    IF bigCompare(remainder, b) >= 0
    THEN SubtractWhile(bigSub(remainder, b), b, count + 1)
    ELSE [remainder |-> remainder, count |-> count]

\* the for loop of bigDiv
RECURSIVE bigDivLoop(_, _, _, _, _)
bigDivLoop(a, b, i, res, remainder) ==
    IF i < Len(a)
    THEN Only({bigDivLoop(a, b, i + 1, res \o PhpString(reduced.count),
                          reduced.remainder) :
               reduced \in {SubtractWhile(
                               bigAdd(bigMul(remainder, <<49, 48>>), <<a[i + 1]>>),
                               b, 0)}})
    ELSE res

\* mutant: the quotient is rounded up when the division leaves a remainder
bigDivRoundUp(a, b) ==
    IF b = <<48>> THEN <<48>>
    ELSE IF bigCompare(a, b) < 0 THEN <<48>>
    ELSE LET q == LtrimOrZero(bigDivLoop(a, b, 0, <<>>, <<48>>)) IN
         IF bigMul(q, b) = a THEN q ELSE bigAdd(q, <<49>>)

bigDiv(a, b) ==
    IF b = <<48>> THEN <<48>>
    ELSE IF bigCompare(a, b) < 0 THEN <<48>>
    ELSE LtrimOrZero(bigDivLoop(a, b, 0, <<>>, <<48>>))

\* the for loop of bigMod
RECURSIVE bigModLoop(_, _, _, _)
bigModLoop(a, b, i, remainder) ==
    IF i < Len(a)
    THEN Only({bigModLoop(a, b, i + 1, reduced.remainder) :
               reduced \in {SubtractWhile(
                               bigAdd(bigMul(remainder, <<49, 48>>), <<a[i + 1]>>),
                               b, 0)}})
    ELSE remainder

bigMod(a, b) ==
    IF b = <<48>> THEN <<48>> ELSE bigModLoop(a, b, 0, <<48>>)

\* for ($i = 0; $i < (int)$exp; $i++) $result = bigMul($result, $base)
RECURSIVE bigPowLoop(_, _, _, _)
bigPowLoop(base, exp, i, res) ==
    IF i < PhpInt(exp)
    THEN Only({bigPowLoop(base, exp, i + 1, product) :
               product \in {bigMul(res, base)}})
    ELSE res

bigPow(base, exp) ==
    IF exp = <<48>> THEN <<49>> ELSE bigPowLoop(base, exp, 0, <<49>>)

\* bits is the string (string)$bits
bigLeftShift(a, bits) == bigMul(a, bigPow(<<50>>, bits))

bigRightShift(a, bits) == bigDiv(a, bigPow(<<50>>, bits))

\* the while loop of decToBin
RECURSIVE decToBinLoop(_, _)
decToBinLoop(dec, binary) ==
    IF bigCompare(dec, <<48>>) > 0
    THEN Only({decToBinLoop(quotient, bit \o binary) :
               quotient \in {bigDiv(dec, <<50>>)}, bit \in {bigMod(dec, <<50>>)}})
    ELSE binary

\* $s ?: '0'
OrZero(s) == IF s = <<>> \/ s = <<48>> THEN <<48>> ELSE s

decToBin(dec) ==
    IF dec = <<48>> THEN <<48>> ELSE OrZero(decToBinLoop(dec, <<>>))

\* the for loop of binToDec
RECURSIVE binToDecLoop(_, _, _, _)
binToDecLoop(bin, i, dec, power) ==
    IF i >= 0
    THEN Only({binToDecLoop(bin, i - 1, sum, doubled) :
               sum \in {IF bin[i + 1] = 49 THEN bigAdd(dec, power) ELSE dec},
               doubled \in {bigMul(power, <<50>>)}})
    ELSE dec

binToDec(bin) == binToDecLoop(bin, Len(bin) - 1, <<48>>, <<49>>)

\* mutant: the shorter string is padded on its right
StrPadRight(bin, maxLen) == bin \o Repeat(48, maxLen - Len(bin))

\* str_pad($bin, $maxLen, '0', STR_PAD_LEFT)
StrPadLeft(bin, maxLen) == Repeat(48, maxLen - Len(bin)) \o bin

Max(x, y) == IF x >= y THEN x ELSE y

\* the padding and the for loop of bigAnd, on the two binary strings
AndOfBits(binA, binB) ==
    LET maxLen == Max(Len(binA), Len(binB))
        padA == StrPadLeft(binA, maxLen)
        padB == StrPadLeft(binB, maxLen)
    IN  [i \in 1 .. maxLen |-> IF padA[i] = 49 /\ padB[i] = 49 THEN 49 ELSE 48]

bigAnd(a, b) == binToDec(AndOfBits(decToBin(a), decToBin(b)))

\* mutant: the two numbers are added
bigXorAsSum(a, b) == bigAdd(a, b)

\* the padding and the for loop of bigXor, on the two binary strings
XorOfBits(binA, binB) ==
    LET maxLen == Max(Len(binA), Len(binB))
        padA == StrPadLeft(binA, maxLen)
        padB == StrPadLeft(binB, maxLen)
    IN  [i \in 1 .. maxLen |-> IF padA[i] # padB[i] THEN 49 ELSE 48]

bigXor(a, b) == binToDec(XorOfBits(decToBin(a), decToBin(b)))

\* the while loop of decToHex
RECURSIVE decToHexLoop(_, _)
decToHexLoop(dec, hex) ==
    IF bigCompare(dec, <<48>>) > 0
    THEN decToHexLoop(bigDiv(dec, <<49, 54>>),
                      <<DigitChars[PhpInt(bigMod(dec, <<49, 54>>)) + 1]>> \o hex)
    ELSE hex

decToHex(dec) ==
    IF dec = <<48>> THEN <<48>> ELSE OrZero(decToHexLoop(dec, <<>>))

\* the operands explored: every number up to MaxOperand, as PHP writes it
Operands == {PhpString(v) : v \in 0 .. MaxOperand}

\* the exponents and shift counts explored
Exponents == {PhpString(v) : v \in 0 .. MaxExponent}

\* the bases of bigPow explored
PowBases == {PhpString(v) : v \in 0 .. MaxPowBase}

\* one call of a function of two numbers, made on its own: no function of
\* the class raises, each returns a string
BigCall(op, a, b, out) ==
    /\ status = "new"
    /\ status' = "called"
    /\ call' = [op |-> op, a |-> a, b |-> b, out |-> out, raised |-> FALSE]
    /\ UNCHANGED <<lang, opts, inst, peer, locals, n, result, id, rec, err>>

BigAddCall == call = NoCall /\ \E a \in Operands, b \in Operands : BigCall("bigAdd", a, b, bigAdd(a, b))

BigMulCall == call = NoCall /\ \E a \in Operands, b \in Operands : BigCall("bigMul", a, b, bigMul(a, b))

BigSubCall == call = NoCall /\ \E a \in Operands, b \in Operands : BigCall("bigSub", a, b, bigSub(a, b))

BigDivCall == call = NoCall /\ \E a \in Operands, b \in Operands : BigCall("bigDiv", a, b, bigDiv(a, b))

BigModCall == call = NoCall /\ \E a \in Operands, b \in Operands : BigCall("bigMod", a, b, bigMod(a, b))

BigPowCall ==
    call = NoCall /\ \E a \in PowBases, b \in Exponents : BigCall("bigPow", a, b, bigPow(a, b))

BigLeftShiftCall ==
    call = NoCall /\ \E a \in Operands, b \in Exponents :
        BigCall("bigLeftShift", a, b, bigLeftShift(a, b))

BigRightShiftCall ==
    call = NoCall /\ \E a \in Operands, b \in Exponents :
        BigCall("bigRightShift", a, b, bigRightShift(a, b))

NextBig ==
    \/ BigAddCall
    \/ BigMulCall
    \/ BigSubCall
    \/ BigDivCall
    \/ BigModCall
    \/ BigPowCall
    \/ BigLeftShiftCall
    \/ BigRightShiftCall

SpecBig == Init /\ [][NextBig]_vars

\* the operands of the bitwise functions explored
BitOperands == {PhpString(v) : v \in 0 .. MaxBitOperand}

BigAndCall ==
    call = NoCall /\ \E a \in BitOperands, b \in BitOperands : BigCall("bigAnd", a, b, bigAnd(a, b))

BigXorCall ==
    call = NoCall /\ \E a \in BitOperands, b \in BitOperands : BigCall("bigXor", a, b, bigXor(a, b))

BigCompareCall ==
    call = NoCall /\ \E a \in Operands, b \in Operands : BigCall("bigCompare", a, b, bigCompare(a, b))

NextBits ==
    \/ BigAndCall
    \/ BigXorCall
    \/ BigCompareCall

SpecBits == Init /\ [][NextBits]_vars

-----------------------------------------------------------------------------
(* generate() and decode() of the PHP class *)

\* the while loop of toBase
RECURSIVE PhpToBaseLoop(_, _, _)
PhpToBaseLoop(self, num, res) ==
    IF bigCompare(num, <<48>>) > 0
    THEN Only({PhpToBaseLoop(self, quotient,
                             <<self.BASE_ALPHABET[PhpInt(rem) + 1]>> \o res) :
               quotient \in {bigDiv(num, PhpString(self.baseRadix))},
               rem \in {bigMod(num, PhpString(self.baseRadix))}})
    ELSE res

PhpToBase(self, num, minLength) ==
    IF num = <<48>> THEN Repeat(self.BASE_ALPHABET[1], Max(minLength, 1))
    ELSE PadToMinLength(self, PhpToBaseLoop(self, num, <<>>), minLength)

\* the for loop of fromBase
RECURSIVE PhpFromBaseLoop(_, _, _, _)
PhpFromBaseLoop(self, str, i, res) ==
    IF i >= Len(str) THEN [ok |-> TRUE, value |-> res]
    ELSE IF str[i + 1] \notin DOMAIN self.BASE_MAP
    THEN [ok |-> FALSE, char |-> str[i + 1]]
    ELSE Only({PhpFromBaseLoop(self, str, i + 1, sum) :
               sum \in {bigAdd(bigMul(res, PhpString(self.baseRadix)),
                               PhpString(self.BASE_MAP[str[i + 1]]))}})

PhpFromBase(self, str) == PhpFromBaseLoop(self, str, 0, <<48>>)

\* the for loop of generateRandomBits
RECURSIVE PhpBufferValue(_, _)
PhpBufferValue(buffer, k) ==
    IF k = 0 THEN <<48>>
    ELSE bigAdd(bigMul(PhpBufferValue(buffer, k - 1), <<50, 53, 54>>),
                PhpString(buffer[k]))

\* (string)$w for a width $w >= 0: an int, or a float such as 1.5 or NAN
PhpNumString(w) ==
    IF w.nan THEN <<78, 65, 78>>
    ELSE IF w.h % 2 = 0 THEN PhpString(w.h \div 2)
    ELSE PhpString(w.h \div 2) \o <<46, 53>>

\* ceil($bits / 8)
PhpBufferLength(bits) == (bits.h + 15) \div 16

\* $bits % 8: the operator works on (int)$bits
PhpExtraBits(bits) == IntOf(bits) % 8

\* $value of generateRandomBits($bits) before the final mask, when
\* random_bytes() returned buffer
PhpShiftedValue(bits, buffer) ==
    IF PhpExtraBits(bits) # 0
    THEN bigRightShift(PhpBufferValue(buffer, Len(buffer)),
                       PhpString(8 - PhpExtraBits(bits)))
    ELSE PhpBufferValue(buffer, Len(buffer))

\* generateRandomBits($bits) when random_bytes() returned buffer
PhpGenerateRandomBits(bits, buffer) ==
    bigAnd(PhpShiftedValue(bits, buffer),
           bigSub(bigPow(<<50>>, PhpNumString(bits)), <<49>>))

\* floor(2^20 * sqrt(2))
Sqrt2Scaled == 1482910

\* ceil($totalBits / log($this->baseRadix, 2)) for a radix >= 2: the least L
\* with radix^L >= 2^totalBits; for totalBits = k + 0.5 that is the least L
\* with radix^L > floor(2^k * sqrt(2)).  ceil(NAN) is NAN, and no
\* strlen($result) < NAN holds in toBase: NAN pads as 0 does
PhpMinLength(totalBits, radix) ==
    IF totalBits.nan THEN 0
    ELSE IF IsInteger(totalBits) THEN MinLength(IntOf(totalBits), radix)
    ELSE LeastLength(radix, (Sqrt2Scaled \div Pow(2, 20 - IntOf(totalBits))) + 1, 0, 1)

\* the locals of generate() when toBase is called; subs are the operand
\* pairs of its own bigSub calls and of those of generateRandomBits, operands
\* the numbers it and generateRandomBits hand to bigAnd, bigXor, the shifts,
\* bigAdd and toBase
PhpGenerateLocals(self, now, buffer) ==
    LET tb == self.timestampBits
        rb == self.randomBits
        header == PhpNumString(tb)
        timestampMask == bigSub(bigPow(<<50>>, PhpNumString(tb)), <<49>>)
        timestamp == IF NumLess(Num(0), tb)
                     THEN bigAnd(PhpString(now), timestampMask)
                     ELSE <<48>>
        randBits == PhpGenerateRandomBits(rb, buffer)
        headerXorMask ==
            bigAnd(randBits, bigSub(bigPow(<<50>>, PhpString(headerBits)), <<49>>))
        finalHeader == bigXor(header, headerXorMask)
        finalTimestamp ==
            IF NumLess(Num(0), tb)
            THEN bigXor(timestamp,
                        bigRightShift(randBits, PhpNumString(NumMinus(rb, tb))))
            ELSE timestamp
        withHeader == bigAdd(bigLeftShift(<<49>>, PhpString(headerBits)), finalHeader)
        withTimestamp ==
            IF NumLess(Num(0), tb)
            THEN bigAdd(bigLeftShift(withHeader, PhpNumString(tb)), finalTimestamp)
            ELSE withHeader
    IN  [now |-> now,
         timestamp |-> timestamp,
         randBits |-> randBits,
         finalHeader |-> finalHeader,
         finalTimestamp |-> finalTimestamp,
         finalValue |-> bigAdd(bigLeftShift(withTimestamp, PhpNumString(rb)), randBits),
         minLength |-> PhpMinLength(NumPlus(1 + headerBits, NumAdd(tb, rb)),
                                    self.baseRadix),
         operands |->
            {PhpShiftedValue(rb, buffer),
             bigSub(bigPow(<<50>>, PhpNumString(rb)), <<49>>),
             randBits,
             bigSub(bigPow(<<50>>, PhpString(headerBits)), <<49>>),
             header, headerXorMask, finalHeader, finalTimestamp,
             withHeader, withTimestamp,
             bigAdd(bigLeftShift(withTimestamp, PhpNumString(rb)), randBits)}
            \cup (IF NumLess(Num(0), tb)
                  THEN {PhpString(now), timestampMask, timestamp,
                        bigRightShift(randBits, PhpNumString(NumMinus(rb, tb)))}
                  ELSE {}),
         subs |-> {<<bigPow(<<50>>, PhpNumString(tb)), <<49>>>>,
                   <<bigPow(<<50>>, PhpNumString(rb)), <<49>>>>,
                   <<bigPow(<<50>>, PhpString(headerBits)), <<49>>>>}
                  \cup (IF PhpExtraBits(rb) # 0
                        THEN {<<bigPow(<<50>>, PhpString(PhpExtraBits(rb))), <<49>>>>}
                        ELSE {})]

\* 2^bits - 1, as decode() and generate() build their masks
PhpMask(bits) == bigSub(bigPow(<<50>>, PhpString(bits)), <<49>>)

\* (int)bigXor($encodedHeader, $headerXorMask)
PhpActualTimestampBits(value, fullLength) ==
    PhpInt(bigXor(bigAnd(bigRightShift(value, PhpString(fullLength - headerBits)),
                         PhpMask(headerBits)),
                  bigAnd(value, PhpMask(headerBits))))

\* (int)$actualTimestamp
PhpActualTimestamp(value, encodedRandom, randomBitsLength, actualTimestampBits) ==
    PhpInt(bigXor(bigAnd(bigRightShift(value, PhpString(randomBitsLength)),
                         PhpMask(actualTimestampBits)),
                  bigRightShift(encodedRandom,
                                PhpString(randomBitsLength - actualTimestampBits))))

\* the operand pairs of the bigSub calls of decode()
PhpDecodeSubs(full, fullLength, randomBitsLength, actualTimestampBits) ==
    {<<full, bigPow(<<50>>, PhpString(fullLength))>>,
     <<bigPow(<<50>>, PhpString(headerBits)), <<49>>>>,
     <<bigPow(<<50>>, PhpString(randomBitsLength)), <<49>>>>}
    \cup (IF actualTimestampBits > 0
          THEN {<<bigPow(<<50>>, PhpString(actualTimestampBits)), <<49>>>>}
          ELSE {})

\* $result, from the values decode() has computed
PhpDecodeResult(binaryStr, randomBitsLength, actualTimestampBits, encodedRandom, actualTimestamp, subs) ==
    [ok |-> TRUE,
     timestampLength |-> actualTimestampBits,
     timestamp |-> IF actualTimestampBits > 0 THEN actualTimestamp ELSE 0,
     randomLength |-> randomBitsLength,
     random |-> decToHex(encodedRandom),
     formattedTimestamp |->
        IF actualTimestampBits > 0
        THEN [null |-> FALSE, time |-> actualTimestamp]
        ELSE [null |-> TRUE, time |-> 0],
     binary |-> Tail(binaryStr),
     subs |-> subs]

\* decode(), from $encodedRandom on
PhpDecodeRandom(full, binaryStr, value, actualTimestampBits, randomBitsLength, encodedRandom) ==
    PhpDecodeResult(binaryStr, randomBitsLength, actualTimestampBits, encodedRandom,
        PhpActualTimestamp(value, encodedRandom, randomBitsLength, actualTimestampBits),
        PhpDecodeSubs(full, Len(binaryStr) - 1, randomBitsLength, actualTimestampBits))

\* decode(), from $actualTimestampBits on
PhpDecodeWidths(full, binaryStr, value, actualTimestampBits) ==
    PhpDecodeRandom(full, binaryStr, value, actualTimestampBits,
        Len(binaryStr) - 1 - headerBits - actualTimestampBits,
        bigAnd(value, PhpMask(Len(binaryStr) - 1 - headerBits - actualTimestampBits)))

\* decode(), from $value on
PhpDecodeValue(full, binaryStr, value) ==
    PhpDecodeWidths(full, binaryStr, value,
                    PhpActualTimestampBits(value, Len(binaryStr) - 1))

\* decode(), from $binaryStr on; $fullLength is strlen($binaryStr) - 1
PhpDecodeFull(full, binaryStr) ==
    PhpDecodeValue(full, binaryStr,
                   bigSub(full, bigPow(<<50>>, PhpString(Len(binaryStr) - 1))))

\* decode($id)
PhpDecode(self, str) ==
    IF ~PhpFromBase(self, str).ok
    THEN [ok |-> FALSE, error |-> "InvalidCharacter",
          char |-> PhpFromBase(self, str).char]
    ELSE PhpDecodeFull(PhpFromBase(self, str).value,
                       decToBin(PhpFromBase(self, str).value))

\* the bytes random_bytes() returns, and the values of the millisecond clock
PhpRandomByteValues == {0, 165}

PhpClockValues == {999, 21500}

\* generate() of the PHP class.  random_bytes(NAN) raises a TypeError; over
\* a one-character alphabet log($this->baseRadix, 2) is 0 and the division
\* raises: neither call returns an identifier
PhpGenerate ==
    /\ status = "idle"
    /\ lang = "php"
    /\ id = NoId
    /\ IntOf(inst.randomBits) <= MaxPhpEntropyLength
    /\ IF inst.randomBits.nan
       THEN /\ err' = "TypeError"
            /\ UNCHANGED <<locals, id>>
       ELSE IF inst.baseRadix = 1
       THEN /\ err' = "DivisionByZeroError"
            /\ UNCHANGED <<locals, id>>
       ELSE \E now \in PhpClockValues :
            \E buffer \in [1 .. PhpBufferLength(inst.randomBits) -> PhpRandomByteValues] :
              LET g == PhpGenerateLocals(inst, now, buffer) IN
              /\ locals' = g
              /\ id' = PhpToBase(inst, g.finalValue, g.minLength)
              /\ err' = "none"
    /\ rec' = NoRec
    /\ inst' = AfterCall(inst)
    /\ UNCHANGED <<lang, opts, peer, status, n, result, call>>

\* generate() on an instance whose two widths are whole numbers
PhpGenerateCall ==
    /\ inst # NoInstance
    /\ IsInteger(inst.timestampBits) /\ IsInteger(inst.randomBits)
    /\ PhpGenerate

\* generate() on an instance with a width that is a fraction or NAN: the
\* constructor has let it through
PhpGenerateFractionalCall ==
    /\ inst # NoInstance
    /\ ~(IsInteger(inst.timestampBits) /\ IsInteger(inst.randomBits))
    /\ PhpGenerate

\* decode($id) of a generated identifier
PhpDecodeCall ==
    LET out == PhpDecode(inst, id) IN
    /\ status = "idle"
    /\ lang = "php"
    /\ id # NoId
    /\ rec' = [by |-> 1, input |-> id, out |-> out]
    /\ err' = IF out.ok THEN "none" ELSE out.error
    /\ inst' = AfterCall(inst)
    /\ UNCHANGED <<lang, opts, peer, status, locals, n, result, id, call>>

\* the PHP class, and the subtraction it is built on
NextPhp ==
    \/ ConstructAny
    \/ PhpGenerateCall
    \/ PhpDecodeCall
    \/ BigSubCall

SpecPhp == Init /\ [][NextPhp]_vars

\* generate() of the PHP class over every configuration its constructor accepts
NextWidths ==
    \/ ConstructAny
    \/ PhpGenerateCall
    \/ PhpGenerateFractionalCall

SpecWidths == Init /\ [][NextWidths]_vars

-----------------------------------------------------------------------------
(* decode() of the two classes on the same string *)

\* decode(str) on the JavaScript instance and decode($str) on the instance
\* the PHP class builds from the same options
DecodeBoth(str) ==
    /\ status = "idle"
    /\ lang = "js"
    /\ rec = NoRec
    /\ ConfigError("php", opts) = "none"
    /\ fromBase(inst, str).ok =>
          DecodedTimestampBits(inst, str) <= MaxDecodedTimestampBits
    /\ rec' = [by |-> 1, input |-> str,
               out |-> decode(inst, str),
               php |-> PhpDecode(NewInstance(opts), str)]
    /\ inst' = AfterCall(inst)
    /\ UNCHANGED <<lang, opts, peer, status, locals, n, result, id, err, call>>

DecodeBothInputs ==
    /\ status = "idle"
    /\ \E str \in StringsUpTo(InputChars(inst), MaxInputLength) : DecodeBoth(str)

NextAgree ==
    \/ ConstructAny
    \/ DecodeBothInputs

SpecAgree == Init /\ [][NextAgree]_vars

-----------------------------------------------------------------------------
(* toBase and fromBase called on their own, in both classes *)

\* an instance over each alphabet; the widths play no part in toBase
ConstructAlphabet ==
    /\ status = "new"
    /\ \E l \in {"js", "php"}, a \in Alphabets : Construct(l, a, Num(0), Num(6))

\* #toBase(num, minLength) of the JavaScript class, up to its loop
ToBaseCall ==
    /\ status = "idle"
    /\ lang = "js"
    /\ locals = NoLocals
    /\ \E num \in 0 .. MaxNumber, minLength \in 0 .. MaxMinLength :
         /\ locals' = [num |-> num, minLength |-> minLength]
         /\ IF num = 0
            THEN /\ id' = ToBaseOfZero(inst, minLength)
                 /\ UNCHANGED <<status, n, result>>
            ELSE /\ status' = "toBase"
                 /\ n' = num
                 /\ result' = <<>>
                 /\ id' = NoId
    /\ UNCHANGED <<lang, opts, inst, peer, rec, err, call>>

\* toBase($num, $minLength) of the PHP class; with one character in the
\* alphabet the loop divides by '1' for ever and the script is stopped
PhpToBaseCall ==
    /\ status = "idle"
    /\ lang = "php"
    /\ locals = NoLocals
    /\ \E num \in 0 .. MaxNumber, minLength \in 0 .. MaxMinLength :
         /\ locals' = [num |-> num, minLength |-> minLength]
         /\ IF num > 0 /\ inst.baseRadix = 1
            THEN /\ err' = "FatalError"
                 /\ id' = NoId
            ELSE /\ err' = "none"
                 /\ id' = PhpToBase(inst, PhpString(num), minLength)
    /\ UNCHANGED <<lang, opts, inst, peer, status, n, result, rec, call>>

\* fromBase of the class of the instance, on the string toBase returned;
\* the PHP number is recorded as the string it is
FromBaseCall ==
    /\ status = "idle"
    /\ id # NoId
    /\ rec = NoRec
    /\ rec' = [by |-> 1, input |-> id,
               out |-> IF lang = "js" THEN fromBase(inst, id) ELSE PhpFromBase(inst, id)]
    /\ UNCHANGED <<lang, opts, inst, peer, status, locals, n, result, id, err, call>>

NextRadix ==
    \/ ConstructAlphabet
    \/ ToBaseCall
    \/ ToBaseStep
    \/ ToBaseReturn
    \/ PhpToBaseCall
    \/ FromBaseCall

SpecRadix == Init /\ [][NextRadix]_vars

-----------------------------------------------------------------------------
(* two calls of generate() over one alphabet *)

\* the widths of the instance that makes the first call
PairWidths == {<<0, 6>>, <<1, 7>>, <<2, 8>>}

ConstructPairs ==
    /\ status = "new"
    /\ \E l \in {"js", "php"}, a \in Alphabets, w \in PairWidths :
          Construct(l, a, Num(w[1]), Num(w[2]))

\* the while loop of #toBase, run to its end (radix >= 2)
RECURSIVE toBaseLoop(_, _, _)
toBaseLoop(self, num, res) ==
    IF num > 0
    THEN toBaseLoop(self, num \div self.baseRadix,
                    <<self.BASE_ALPHABET[(num % self.baseRadix) + 1]>> \o res)
    ELSE res

\* #toBase(num, minLength) as one step
toBase(self, num, minLength) ==
    IF num = 0 THEN ToBaseOfZero(self, minLength)
    ELSE PadToMinLength(self, toBaseLoop(self, num, <<>>), minLength)

\* a second call of generate(), on the instance that made the first one
\* (by = 1) or on the second instance (by = 2); the first call returned, so
\* the alphabet has two characters or more
GenerateAgain(by) ==
    LET self == IF by = 1 THEN inst ELSE peer IN
    /\ status = "idle"
    /\ id # NoId
    /\ call = NoCall
    /\ self # NoInstance
    /\ IF lang = "js"
       THEN \E now \in ClockValues :
            \E buffer \in [1 .. BufferLength(IntOf(self.randomBits)) -> RandomByteValues] :
              LET g == GenerateLocals(self, now, buffer) IN
              call' = [op |-> "generate", by |-> by, locals |-> g,
                       out |-> toBase(self, g.finalValue, g.minLength)]
       ELSE \E now \in PhpClockValues :
            \E buffer \in [1 .. PhpBufferLength(self.randomBits) -> PhpRandomByteValues] :
              LET g == PhpGenerateLocals(self, now, buffer) IN
              call' = [op |-> "generate", by |-> by, locals |-> g,
                       out |-> PhpToBase(self, g.finalValue, g.minLength)]
    /\ inst' = IF by = 1 THEN AfterCall(inst) ELSE inst
    /\ peer' = IF by = 1 THEN peer ELSE AfterCall(peer)
    /\ UNCHANGED <<lang, opts, status, locals, n, result, id, rec, err>>

NextPairs ==
    \/ ConstructPairs
    \/ \E w \in PeerWidths : ConstructPeer(w)
    \/ GenerateCall
    \/ ToBaseStep
    \/ ToBaseReturn
    \/ PhpGenerateCall
    \/ \E by \in {1, 2} : GenerateAgain(by)

SpecPairs == Init /\ [][NextPairs]_vars

-----------------------------------------------------------------------------
(* The other JavaScript build of the class (src/unnamed/part_000; the class  *)
(* embedded in the demo page of src/unnamed/part_002 is the same): its       *)
(* constructor checks, #toBase, #fromBase and #generateRandomBits are those  *)
(* of src/src/nfuid.js, its generate() and decode() differ in the clock.     *)

\* BigInt(Date.now()) & timestampMask
TimestampVariant(tb, now) ==
    IF tb > 0 THEN BigAnd(now, BigShl(1, tb) - 1) ELSE 0

GenerateLocalsVariant(self, now, buffer) ==
    LET tb == IntOf(self.timestampBits)
        rb == IntOf(self.randomBits)
        timestamp == TimestampVariant(tb, now)
        randBits == generateRandomBits(rb, buffer)
        finalHeader == FinalHeader(tb, randBits)
        finalTimestamp == FinalTimestamp(tb, rb, timestamp, randBits)
    IN  [now |-> now,
         timestamp |-> timestamp,
         randBits |-> randBits,
         finalHeader |-> finalHeader,
         finalTimestamp |-> finalTimestamp,
         finalValue |-> FinalValue(tb, rb, finalHeader, finalTimestamp, randBits),
         minLength |-> MinLength(1 + headerBits + tb + rb, self.baseRadix)]

\* decode(): formattedTimestamp is new Date(Number(actualTimestamp))
decodeVariant(self, str) ==
    LET out == decode(self, str) IN
    IF out.ok /\ out.timestampLength > 0
    THEN [out EXCEPT !.formattedTimestamp = [null |-> FALSE, time |-> out.timestamp]]
    ELSE out

GenerateVariantCall ==
    /\ status = "idle"
    /\ lang = "js"
    /\ id = NoId
    /\ IF ~IsInteger(inst.timestampBits) \/ ~IsInteger(inst.randomBits)
       THEN /\ err' = "RangeError"
            /\ id' = NoId
            /\ UNCHANGED <<status, locals, n, result>>
       ELSE /\ IntOf(inst.randomBits) <= MaxEntropyLength
            /\ \E now \in ClockValues :
               \E buffer \in [1 .. BufferLength(IntOf(inst.randomBits)) -> RandomByteValues] :
                 LET g == GenerateLocalsVariant(inst, now, buffer) IN
                 /\ locals' = g
                 /\ err' = "none"
                 /\ IF g.finalValue = 0
                    THEN /\ id' = ToBaseOfZero(inst, g.minLength)
                         /\ UNCHANGED <<status, n, result>>
                    ELSE /\ status' = "toBase"
                         /\ n' = g.finalValue
                         /\ result' = <<>>
                         /\ id' = NoId
    /\ rec' = NoRec
    /\ inst' = AfterCall(inst)
    /\ UNCHANGED <<lang, opts, peer, call>>

DecodeVariant ==
    LET out == decodeVariant(inst, id) IN
    /\ status = "idle"
    /\ lang = "js"
    /\ id # NoId
    /\ rec' = [by |-> 1, input |-> id, out |-> out]
    /\ err' = IF out.ok THEN "none" ELSE out.error
    /\ inst' = AfterCall(inst)
    /\ UNCHANGED <<lang, opts, peer, status, locals, n, result, id, call>>

NextVariant ==
    \/ ConstructAny
    \/ GenerateVariantCall
    \/ ToBaseStep
    \/ ToBaseReturn
    \/ DecodeVariant

SpecVariant == Init /\ [][NextVariant]_vars

-----------------------------------------------------------------------------
(* Properties *)

\* the configured widths of the generating instance
ConfiguredTimestampBits == IntOf(inst.timestampBits)
ConfiguredRandomBits == IntOf(inst.randomBits)

\* generate() has returned id
Generated == status = "idle" /\ id # NoId

\* the value of a lower-case hexadecimal string
RECURSIVE HexValue(_)
HexValue(str) ==
    IF str = <<>> THEN 0
    ELSE LET c == str[Len(str)]
             d == IF c \in 48 .. 57 THEN c - 48 ELSE c - 87
         IN  16 * HexValue(SubSeq(str, 1, Len(str) - 1)) + d

IsCanonicalHex(str) ==
    /\ Len(str) >= 1
    /\ \A i \in DOMAIN str : str[i] \in (48 .. 57) \cup (97 .. 102)
    /\ Len(str) > 1 => str[1] # 48

\* ceil(totalBits / log2(radix)) stated directly: the least L with
\* radix^L >= 2^totalBits, and Infinity when log2(radix) = 0
ExpectedLength ==
    LET totalBits == 1 + 6 + ConfiguredTimestampBits + ConfiguredRandomBits
        radix == Len(inst.BASE_ALPHABET)
    IN  IF radix = 1 THEN Infinity
        ELSE CHOOSE L \in 0 .. totalBits :
                /\ Pow(radix, L) >= Pow(2, totalBits)
                /\ L > 0 => Pow(radix, L - 1) < Pow(2, totalBits)

RoundTripTimestamp ==
    (rec.by = 1 /\ ConfiguredTimestampBits > 0) =>
        rec.out.timestamp =
            (locals.now \div 1000) % Pow(2, ConfiguredTimestampBits)

RoundTripTimestampWitness ==
    /\ rec.by = 1
    /\ ConfiguredTimestampBits > 1
    /\ locals.now \div 1000 >= Pow(2, ConfiguredTimestampBits)
    /\ locals.finalTimestamp # locals.timestamp
    /\ rec.out.timestamp = (locals.now \div 1000) % Pow(2, ConfiguredTimestampBits)
    /\ rec.out.timestamp # 0

\* C3: the random field returned by decode(generate()) is the hexadecimal
\* rendering of exactly the random bits drawn by generate, although its low
\* 6 bits and its top timestampLength bits also serve as XOR pads.
RoundTripRandom ==
    rec.by = 1 =>
        /\ IsCanonicalHex(rec.out.random)
        /\ HexValue(rec.out.random) = locals.randBits

RoundTripRandomWitness ==
    /\ rec.by = 1
    /\ ConfiguredTimestampBits > 0
    /\ locals.randBits >= Pow(2, ConfiguredRandomBits - 1)
    /\ HeaderXorMask(locals.randBits) # 0
    /\ HexValue(rec.out.random) = locals.randBits

OutputLength ==
    /\ Generated => Len(id) = ExpectedLength
    /\ status = "toBase" => Len(result) <= ExpectedLength

OutputLengthWitness ==
    /\ Generated
    /\ inst.baseRadix = 10
    /\ Len(result) < Len(id)
    /\ Len(id) = ExpectedLength

\* C6: the packed integer of generate() lies in
\* [2^(6+t+e), 2^(7+t+e)): its minimal binary form has 1 + 6 + t + e bits and
\* starts with 1, and decode's fullLength is 6 + t + e.
FlagBitWidth ==
    LET payload == 6 + ConfiguredTimestampBits + ConfiguredRandomBits IN
    /\ locals # NoLocals =>
          /\ locals.finalValue >= Pow(2, payload)
          /\ locals.finalValue < Pow(2, payload + 1)
          /\ Len(BigToString(locals.finalValue, 2)) = payload + 1
          /\ BigToString(locals.finalValue, 2)[1] = 49
    /\ rec.by # 0 => Len(rec.out.binary) = payload

FlagBitWidthWitness ==
    /\ rec.by = 1
    /\ locals.finalHeader < 32
    /\ ConfiguredTimestampBits > 0
    /\ Len(rec.out.binary) = 6 + ConfiguredTimestampBits + ConfiguredRandomBits

\* an alphabet as the data model defines it
IsValidAlphabet(a) ==
    /\ Len(a) >= 1
    /\ \A i \in DOMAIN a : a[i] \in 33 .. 126
    /\ \A i, j \in DOMAIN a : a[i] = a[j] => i = j

\* C7: with a valid alphabet and integer widths, construction succeeds if
\* and only if 0 <= timestampLength <= 63 and entropyLength >=
\* timestampLength + 6; every constructed instance has
\* 6 + timestampBits <= entropyBits.
ConstructorWidths ==
    (/\ status # "new"
     /\ IsValidAlphabet(opts.baseAlphabet)
     /\ IsInteger(opts.timestampLength)
     /\ IsInteger(opts.entropyLength)) =>
        LET t == IntOf(opts.timestampLength)
            e == IntOf(opts.entropyLength)
            legal == 0 <= t /\ t <= 63 /\ e >= t + 6
        IN  /\ legal <=> inst # NoInstance
            /\ ~legal <=> (status = "rejected" /\ err \in {"timestampLength", "entropyLength"})
            /\ inst # NoInstance => 6 + ConfiguredTimestampBits <= ConfiguredRandomBits

ConstructorWidthsWitness ==
    /\ inst # NoInstance
    /\ inst.timestampBits = Num(63)
    /\ inst.randomBits = Num(69)

\* C8: construction fails whenever the alphabet is empty or holds a space, a
\* character outside 0x21-0x7E or a repeated character; in every constructed
\* instance the characters are distinct and the index table is the exact
\* inverse of the alphabet.
ConstructorAlphabet ==
    /\ (status # "new" /\ ~IsValidAlphabet(opts.baseAlphabet)) =>
          (status = "rejected" /\ err # "none")
    /\ inst # NoInstance =>
          /\ IsValidAlphabet(inst.BASE_ALPHABET)
          /\ DOMAIN inst.BASE_MAP = Range(inst.BASE_ALPHABET)
          /\ \A i \in DOMAIN inst.BASE_ALPHABET :
                inst.BASE_MAP[inst.BASE_ALPHABET[i]] = i - 1

\* C9: every set of options is rejected by the constructor or yields an
\* instance on which generate() never raises.
EagerValidation ==
    inst # NoInstance => err = "none"

\* C10: the loop of toBase strictly decreases its operand on every
\* iteration (so generate() terminates).
ToBaseDecreases ==
    [][(status = "toBase" /\ status' = "toBase") => n' < n]_vars

\* the positions of rec.input that hold a character outside the alphabet
ForeignPositions ==
    {i \in DOMAIN rec.input : rec.input[i] \notin Range(inst.BASE_ALPHABET)}

\* C11: decode(id) raises an invalid-character error, and returns no record,
\* if and only if id holds a character that is not in the alphabet; the error
\* names the leftmost such character.
InvalidCharacterRejection ==
    rec.by # 0 =>
        /\ rec.out.ok <=> ForeignPositions = {}
        /\ rec.out.ok => err = "none"
        /\ ~rec.out.ok =>
              /\ err = "InvalidCharacter"
              /\ rec.out.error = "InvalidCharacter"
              /\ \E i \in ForeignPositions :
                    /\ rec.out.char = rec.input[i]
                    /\ \A j \in ForeignPositions : i <= j

InvalidCharacterRejectionWitness ==
    /\ rec.by # 0
    /\ Len(rec.input) = 2
    /\ ForeignPositions = {1, 2}
    /\ rec.input[1] # rec.input[2]
    /\ ~rec.out.ok
    /\ rec.out.char = rec.input[1]

\* C12: decode fails with an error for every string over the alphabet whose
\* widths give fullLength - 6 - actualTimestampBits < 0; it never returns a
\* record with a negative randomLength.
MalformedSurfaced ==
    (rec.by # 0 /\ rec.out.ok) => rec.out.randomLength >= 0

\* C13: with timestampLength = 0 the packed value has no timestamp field: it
\* is 1, the 6-bit header and the random bits, whatever the clock says; and
\* decode(generate()) returns timestampLength 0, timestamp 0, a null
\* formattedTimestamp and randomLength = entropyLength.
TimestampDisabled ==
    (Generated /\ ConfiguredTimestampBits = 0) =>
        /\ locals.timestamp = 0
        /\ locals.finalValue =
              Pow(2, 6 + ConfiguredRandomBits)
              + (locals.randBits % 64) * Pow(2, ConfiguredRandomBits)
              + locals.randBits
        /\ rec.by = 1 =>
              /\ rec.out.ok
              /\ rec.out.timestampLength = 0
              /\ rec.out.timestamp = 0
              /\ rec.out.formattedTimestamp.null
              /\ rec.out.randomLength = ConfiguredRandomBits

TimestampDisabledWitness ==
    /\ Generated
    /\ ConfiguredTimestampBits = 0
    /\ locals.now >= 1000
    /\ locals.randBits % 64 # 0
    /\ rec.by = 1
    /\ rec.out.timestampLength = 0
    /\ rec.out.formattedTimestamp.null
    /\ rec.out.randomLength > 6

TimestampUnit ==
    (Generated /\ ConfiguredTimestampBits > 0) =>
        /\ locals.timestamp =
              (locals.now \div 1000) % Pow(2, ConfiguredTimestampBits)
        /\ rec.by = 1 => rec.out.timestamp = locals.timestamp

\* the number a string of decimal digits denotes
DecValue(s) == LeadingDigits(s, 0)

\* s is the canonical decimal form of a non-negative integer
IsCanonicalDecimal(s) ==
    /\ s # <<>>
    /\ \A i \in DOMAIN s : s[i] \in 48 .. 57
    /\ s[1] = 48 => Len(s) = 1

\* C17: dividing, or taking the remainder of, a non-negative a by 0 fails
\* with a division-by-zero error; no quotient or remainder is returned.
DivisionByZeroFails ==
    (call.op \in {"bigDiv", "bigMod"} /\ call.b = <<48>>) => call.raised

\* C19: bigAdd, bigMul, bigPow and bigLeftShift agree with integer
\* arithmetic on canonical decimal strings: bigAdd(a,b) = a + b,
\* bigMul(a,b) = a * b, bigPow(a,n) = a^n (a^0 = 1) and
\* bigLeftShift(a,n) = a * 2^n, also for operands of different lengths and
\* for carries that lengthen the result.
BigArithmeticAgrees ==
    LET a == DecValue(call.a)
        b == DecValue(call.b)
        expected == CASE call.op = "bigAdd" -> a + b
                      [] call.op = "bigMul" -> a * b
                      [] call.op = "bigPow" -> Pow(a, b)
                      [] call.op = "bigLeftShift" -> a * Pow(2, b)
    IN  call.op \in {"bigAdd", "bigMul", "bigPow", "bigLeftShift"} =>
            /\ IsCanonicalDecimal(call.out)
            /\ DecValue(call.out) = expected

BigArithmeticAgreesWitness ==
    /\ call.op = "bigAdd"
    /\ Len(call.a) = 2
    /\ Len(call.b) = 1
    /\ Len(call.out) = 3
    /\ DecValue(call.out) = DecValue(call.a) + DecValue(call.b)

\* C20: for b > 0, bigDiv(a,b) and bigMod(a,b) are the quotient q and the
\* remainder r with a = q*b + r and 0 <= r < b; and bigRightShift(a,n) is a
\* divided by 2^n, rounded down.
BigDivisionIsFloor ==
    LET a == DecValue(call.a)
        b == DecValue(call.b)
        q == DecValue(bigDiv(call.a, call.b))
        r == DecValue(bigMod(call.a, call.b))
    IN  /\ (call.op \in {"bigDiv", "bigMod"} /\ b > 0) =>
              /\ IsCanonicalDecimal(call.out)
              /\ DecValue(call.out) = IF call.op = "bigDiv" THEN q ELSE r
              /\ a = q * b + r
              /\ 0 <= r /\ r < b
        /\ call.op = "bigRightShift" =>
              /\ IsCanonicalDecimal(call.out)
              /\ DecValue(call.out) = a \div Pow(2, b)

BigDivisionIsFloorWitness ==
    /\ call.op = "bigDiv"
    /\ Len(call.a) = 3
    /\ DecValue(call.b) > 1
    /\ DecValue(call.out) >= 10
    /\ DecValue(call.a) # DecValue(call.out) * DecValue(call.b)
    /\ DecValue(call.a) \div DecValue(call.b) = DecValue(call.out)

ClampedSubtraction ==
    /\ call.op = "bigSub" =>
          /\ IsCanonicalDecimal(call.out)
          /\ DecValue(call.out) =
                IF DecValue(call.a) >= DecValue(call.b)
                THEN DecValue(call.a) - DecValue(call.b)
                ELSE 0
    /\ (lang = "php" /\ id # NoId) =>
          \A pair \in locals.subs : DecValue(pair[1]) >= DecValue(pair[2])
    /\ (lang = "php" /\ rec.by # 0) =>
          /\ rec.out.ok
          /\ \A pair \in rec.out.subs : DecValue(pair[1]) >= DecValue(pair[2])

ClampedSubtractionWitness ==
    /\ lang = "php"
    /\ rec.by # 0
    /\ rec.out.timestampLength > 0
    /\ rec.out.randomLength = ConfiguredRandomBits
    /\ <<locals.finalValue,
         PhpString(Pow(2, 6 + ConfiguredTimestampBits + ConfiguredRandomBits))>>
            \in rec.out.subs
    /\ Cardinality(rec.out.subs) = 4

\* C21: bigAnd and bigXor equal the bitwise AND and XOR of their operands,
\* for all non-negative operands, also when the binary lengths differ and
\* when an operand is 0; the result is a canonical decimal string, and
\* x XOR x is '0'.
BitwiseAgrees ==
    LET a == DecValue(call.a)
        b == DecValue(call.b)
    IN  /\ call.op = "bigAnd" =>
              /\ IsCanonicalDecimal(call.out)
              /\ DecValue(call.out) = BigAnd(a, b)
        /\ call.op = "bigXor" =>
              /\ IsCanonicalDecimal(call.out)
              /\ DecValue(call.out) = BigXor(a, b)
              /\ call.a = call.b => call.out = <<48>>

BitwiseAgreesWitness ==
    /\ call.op = "bigXor"
    /\ Len(decToBin(call.a)) = 2
    /\ Len(decToBin(call.b)) = 5
    /\ DecValue(call.out) > DecValue(call.b)

\* C22: bigCompare(a, b) is -1, 0 or 1 and follows the numeric order of a
\* and b, two non-negative integers in canonical decimal form: -1 iff
\* a < b, 0 iff a = b, 1 iff a > b.
BigCompareAgrees ==
    LET a == DecValue(call.a)
        b == DecValue(call.b)
    IN  call.op = "bigCompare" =>
            /\ call.out \in {-1, 0, 1}
            /\ call.out = -1 <=> a < b
            /\ call.out = 0 <=> a = b
            /\ call.out = 1 <=> a > b

BigCompareAgreesWitness ==
    /\ call.op = "bigCompare"
    /\ Len(call.a) < Len(call.b)
    /\ call.a[1] > call.b[1]
    /\ call.out = -1

\* the number fromBase returned, whichever class computed it
FromBaseValue ==
    IF lang = "js" THEN rec.out.value ELSE DecValue(rec.out.value)

\* C23: radix round trip: for every alphabet of radix >= 2, every number
\* n >= 0 and every minLength >= 0, fromBase(toBase(n, minLength)) = n; the
\* padding toBase adds on the left does not change the decoded value.
RadixRoundTrip ==
    (rec.by = 1 /\ locals # NoLocals /\ inst.baseRadix >= 2) =>
        /\ rec.out.ok
        /\ FromBaseValue = locals.num

RadixRoundTripWitness ==
    /\ rec.by = 1
    /\ lang = "php"
    /\ inst.baseRadix = 3
    /\ locals.num = 5
    /\ locals.minLength = 4
    /\ Len(rec.input) = 4
    /\ rec.out.value = <<53>>

\* the number of digits of v in a radix >= 2; 0 has none
RECURSIVE DigitCount(_, _)
DigitCount(v, radix) == IF v = 0 THEN 0 ELSE 1 + DigitCount(v \div radix, radix)

\* C24: for radix >= 2, toBase(n, minLength) is the representation of n
\* over the alphabet, most significant digit first, of length
\* max(minLength, number of digits of n): a value longer than minLength is
\* not truncated, the padding is made of the first character of the
\* alphabet only, and 0 is the first character max(minLength, 1) times.
ToBaseRepresentation ==
    LET radix == inst.baseRadix
        num == locals.num
        length == IF num = 0 THEN Max(locals.minLength, 1)
                  ELSE Max(locals.minLength, DigitCount(num, radix))
    IN  (id # NoId /\ locals # NoLocals /\ radix >= 2) =>
            /\ Len(id) = length
            /\ \A i \in 1 .. length :
                  id[i] = inst.BASE_ALPHABET[((num \div Pow(radix, length - i)) % radix) + 1]

ToBaseRepresentationWitness ==
    /\ lang = "js"
    /\ id # NoId
    /\ inst.baseRadix = 2
    /\ locals.num = 37
    /\ locals.minLength = 4
    /\ id = <<49, 48, 48, 49, 48, 49>>

\* v < 2^w for a width w that may be a fraction: v * v < 2^(2w)
FitsWidth(v, w) == v * v < Pow(2, w.h)

\* C25: for every accepted configuration, every sequence of random bytes and
\* every clock value, generate() has randBits < 2^entropyLength, an
\* obfuscated header < 2^6 and an obfuscated timestamp < 2^timestampLength:
\* no field carries into its neighbour, and the sums of the PHP generate()
\* give the value the shifts and ORs of the JavaScript one give.
FieldsFitWidths ==
    (lang = "php" /\ id # NoId /\ ~inst.timestampBits.nan) =>
        /\ FitsWidth(DecValue(locals.randBits), inst.randomBits)
        /\ FitsWidth(DecValue(locals.finalHeader), Num(headerBits))
        /\ FitsWidth(DecValue(locals.finalTimestamp), inst.timestampBits)
        /\ DecValue(locals.finalValue) =
              FinalValue(IntOf(inst.timestampBits), IntOf(inst.randomBits),
                         DecValue(locals.finalHeader),
                         DecValue(locals.finalTimestamp),
                         DecValue(locals.randBits))

\* C26: over one alphabet, the PHP decode and the JavaScript decode return
\* the same timestampLength, timestamp, randomLength, random and binary for
\* every string over the alphabet, the empty string and the strings made of
\* the first character included.
DecodeAgrees ==
    (rec.by = 1 /\ "php" \in DOMAIN rec /\ rec.out.ok) =>
        /\ rec.php.ok
        /\ rec.php.timestampLength = rec.out.timestampLength
        /\ rec.php.timestamp = rec.out.timestamp
        /\ rec.php.randomLength = rec.out.randomLength
        /\ rec.php.random = rec.out.random
        /\ rec.php.binary = rec.out.binary

\* C27: for every string s over the alphabet and every k >= 0, decode of s
\* with k more copies of the first character of the alphabet in front returns
\* the record decode of s returns: an identifier without its left padding
\* decodes to the same fields.
PaddingIgnored ==
    (rec.by = 1 /\ "padding" \in DOMAIN rec /\ rec.out.ok) => rec.padded = rec.out

PaddingIgnoredWitness ==
    /\ rec.by = 1
    /\ "padding" \in DOMAIN rec
    /\ rec.padding = 2
    /\ Len(rec.input) = 2
    /\ rec.input[1] # inst.BASE_ALPHABET[1]
    /\ rec.out.ok
    /\ Len(rec.out.binary) >= 4
    /\ rec.padded = rec.out

\* C28: for every string over the alphabet on which decode returns,
\* timestampLength is an integer in 0..63, 6 + timestampLength + randomLength
\* is the length of the binary string returned, timestamp is in
\* [0, 2^timestampLength) and the value of random is below 2^randomLength.
DecodedShape ==
    (rec.by = 1 /\ rec.out.ok) =>
        /\ rec.out.timestampLength \in 0 .. 63
        /\ headerBits + rec.out.timestampLength + rec.out.randomLength
              = Len(rec.out.binary)
        /\ rec.out.timestamp >= 0
        /\ rec.out.timestamp < Pow(2, rec.out.timestampLength)
        /\ IF rec.out.randomLength >= 0
           THEN HexValue(rec.out.random) < Pow(2, rec.out.randomLength)
           ELSE HexValue(rec.out.random) = 0

\* the clock value a class stores: whole seconds in src/src/nfuid.js,
\* milliseconds in the PHP class
ClockRead(now) == IF lang = "js" THEN now \div 1000 ELSE now

\* the number a call drew as its random bits
RandomDrawn(r) == IF lang = "js" THEN r ELSE DecValue(r)

CanonicalPreserved ==
    /\ (call # NoCall /\ call.op # "generate" /\ call.op # "bigCompare") =>
          IsCanonicalDecimal(call.out)
    /\ (lang = "php" /\ id # NoId /\ locals # NoLocals) =>
          \A v \in locals.operands : IsCanonicalDecimal(v)

=============================================================================
